---- MODULE Spec2Model ----
(***************************************************************************)
(* research/views.py of research_estadistika: the three request handlers   *)
(* (index, analyze, export_word) of one user session, the report that      *)
(* analyze stores in the session, and the document export_word builds.     *)
(*                                                                         *)
(* Cell values are abstracted to what the handlers branch on: a column's   *)
(* cells are numbers or strings, and a statistic (mean, std, Pearson r,    *)
(* Welch t, p) is the symbolic term naming the columns it is computed      *)
(* from.  Text is a sequence of fragments, so that str.strip() is a real   *)
(* operation on it.                                                        *)
(***************************************************************************)
EXTENDS Naturals, Sequences, FiniteSets

\* Bounds of the model.
MaxCols == 3        \* columns of an uploaded sheet (SpecAnalysis)
MaxRows == 1        \* data rows of an uploaded sheet
SessMaxCols == 1    \* columns of an uploaded sheet (Spec, many requests)

VARIABLES
    session,    \* request.session: <<>> or <<report_data>>
    view,       \* the handler that served the latest request
    method,     \* request.method of the latest request
    upload,     \* request.POST and request.FILES of the latest request
    service,    \* what the text-generation service does on each call of it
    response,   \* what the handler returned (or raised)
    calls,      \* the text-generation calls the handler issued, in order
    held        \* whether the session held a report when that request came

vars == <<session, view, method, upload, service, response, calls, held>>

----------------------------------------------------------------------------
(* Text *)

Whitespace == {" ", "\n"}

RECURSIVE LStrip(_)
LStrip(s) ==
    IF s # <<>> /\ Head(s) \in Whitespace THEN LStrip(Tail(s)) ELSE s

RECURSIVE RStrip(_)
RStrip(s) ==
    IF s # <<>> /\ s[Len(s)] \in Whitespace
    THEN RStrip(SubSeq(s, 1, Len(s) - 1))
    ELSE s

\* str.strip()
Strip(s) == RStrip(LStrip(s))

Fallback == <<"AI-generated discussion is unavailable at the moment.">>

\* One call of client.responses.create: it raises, or it returns a text.
Raises == [ok |-> FALSE, text |-> <<>>]
Returns(t) == [ok |-> TRUE, text |-> t]

\* The text the service writes for the i-th table of a request.  Completions
\* come with and without whitespace around them.
Ordinal == <<"first", "second", "third", "fourth", "fifth", "sixth", "seventh", "eighth">>
Completion(i) ==
    IF i % 2 = 1 THEN <<" ", Ordinal[i], "\n">> ELSE <<Ordinal[i]>>

ai_generate_discussion_no_fallback(title, description, table_data, outcome) ==
    IF outcome.ok THEN Strip(outcome.text) ELSE <<>>

\* try: return client.responses.create(...).output_text.strip()
\* except Exception: return the fallback
ai_generate_discussion(title, description, table_data, outcome) ==
    IF outcome.ok THEN Strip(outcome.text) ELSE Fallback

----------------------------------------------------------------------------
(* The uploaded form and spreadsheet *)

Form1 == [title |-> "T1", objective |-> "O1", problem |-> "P1"]
Form2 == [title |-> "T2", objective |-> "O2", problem |-> "P2"]
FormNoTitle == [title |-> "", objective |-> "O1", problem |-> "P1"]
EmptyForm == [title |-> "", objective |-> "", problem |-> ""]

HeaderNames == {"x", "y"}
CellKinds == {"number", "string"}

\* A file that is a spreadsheet: a header row, and nrows data rows whose
\* cells in column i are all of kind cells[i].  A sheet without a header
\* cell has no rows either.
SheetFiles(maxCols) ==
    { [state |-> "ok", header |-> h, cells |-> c, nrows |-> r] :
        <<h, c, r>> \in
            UNION { ([1..n -> HeaderNames] \X [1..n -> CellKinds]
                        \X (IF n = 0 THEN {0} ELSE 0..MaxRows)) :
                    n \in 0..maxCols } }

NoSheet(state) == [state |-> state, header |-> <<>>, cells |-> <<>>, nrows |-> 0]
MissingFile == NoSheet("missing")     \* no file in request.FILES
EmptyFile == NoSheet("empty")         \* a file of zero bytes
InvalidFile == NoSheet("invalid")     \* bytes that are no spreadsheet

NoUpload == [form |-> EmptyForm, file |-> MissingFile]

\* UploadForm(request.POST, request.FILES).is_valid(): the three text fields
\* and the file are required, and an empty file counts as none.
is_valid(u) ==
    /\ u.form.title # ""
    /\ u.form.objective # ""
    /\ u.form.problem # ""
    /\ u.file.state \notin {"missing", "empty"}

\* pd.read_excel raises on bytes that are no spreadsheet.
ReadExcelRaises(file) == file.state = "invalid"

\* pandas renames the second, third ... column of a name to name.1, name.2:
\* a column name is <<header cell, number of earlier columns of that name>>.
Mangle(header) ==
    [i \in 1..Len(header) |->
        <<header[i], Cardinality({j \in 1..(i - 1) : header[j] = header[i]})>>]

\* The dtype pandas infers for column i: a column without cells is object.
Dtype(file, i) ==
    IF file.nrows = 0 THEN "object"
    ELSE IF file.cells[i] = "number" THEN "float64" ELSE "object"

\* df = pd.read_excel(request.FILES["file"])
ReadExcel(file) ==
    [columns |-> Mangle(file.header),
     dtypes  |-> [i \in 1..Len(file.header) |-> Dtype(file, i)],
     cells   |-> file.cells,
     nrows   |-> file.nrows]

Indices(df) == [i \in 1..Len(df.columns) |-> i]

\* df.select_dtypes(include=np.number) / (exclude=np.number), as the
\* frame's column names in column order plus its row count.
SelectNumeric(df) ==
    LET idx == SelectSeq(Indices(df), LAMBDA i : df.dtypes[i] = "float64")
    IN [columns |-> [k \in 1..Len(idx) |-> df.columns[idx[k]]], nrows |-> df.nrows]

SelectCategorical(df) ==
    LET idx == SelectSeq(Indices(df), LAMBDA i : df.dtypes[i] # "float64")
    IN [columns |-> [k \in 1..Len(idx) |-> df.columns[idx[k]]], nrows |-> df.nrows]

\* DataFrame.empty: some axis has length 0.
FrameEmpty(frame) == Len(frame.columns) = 0 \/ frame.nrows = 0

\* df.values.tolist()
RawData(df) == [r \in 1..df.nrows |-> df.cells]

----------------------------------------------------------------------------
(* analyze: the analysis tables *)

TitleRaw == <<"Table A. Raw Data">>
TitleStats == <<"Table B. Statistical Summary">>
TitleFreq(col) == <<"Table C. Frequency Distribution of ", col>>
TitleCorr == <<"Correlation Matrix">>
TitleTTest == <<"T-Test Results">>

None == <<"None">>

Call(title, description, table_data) ==
    [title |-> title, description |-> description, table_data |-> table_data]

\* stats_table: one [v, mean, std] row per numeric column, when the numeric
\* frame is not empty.
StatsTable(numeric) ==
    IF ~FrameEmpty(numeric)
    THEN [i \in 1..Len(numeric.columns) |->
            <<numeric.columns[i], <<"mean", numeric.columns[i]>>,
              <<"std", numeric.columns[i]>>>>]
    ELSE <<>>

StatsCalls(numeric) ==
    IF ~FrameEmpty(numeric)
    THEN <<Call(TitleStats, "This table summarizes central tendency and variability.",
                StatsTable(numeric))>>
    ELSE <<>>

\* The rows of df[col].value_counts(dropna=False) with their percentages.
FreqRows(col, nrows) ==
    IF nrows = 0 THEN <<>> ELSE <<<<"value_counts", col, nrows>>>>

\* freq_tables: one (col, rows) per categorical column, in column order.
FreqTables(categorical) ==
    [i \in 1..Len(categorical.columns) |->
        <<categorical.columns[i], FreqRows(categorical.columns[i], categorical.nrows)>>]

FreqCalls(categorical) ==
    [i \in 1..Len(categorical.columns) |->
        Call(TitleFreq(categorical.columns[i]),
             "This table presents the distribution of categorical responses.",
             FreqRows(categorical.columns[i], categorical.nrows))]

HasCorrFromOne(numeric) == Len(numeric.columns) > 0

\* numeric.shape[1] > 1
HasCorr(numeric) == Len(numeric.columns) > 1

CorrCols(numeric) == IF HasCorr(numeric) THEN numeric.columns ELSE None

CorrRows(numeric) ==
    IF HasCorr(numeric)
    THEN [i \in 1..Len(numeric.columns) |->
            <<numeric.columns[i],
              [j \in 1..Len(numeric.columns) |->
                  <<"pearson", numeric.columns[i], numeric.columns[j]>>]>>]
    ELSE None

CorrCalls(numeric) ==
    IF HasCorr(numeric)
    THEN <<Call(TitleCorr, "This matrix shows relationships between numeric variables.",
                CorrRows(numeric))>>
    ELSE <<>>

InnerStartSelf(i) == i
InnerStartSkip(i) == i + 2

\* for j in range(i + 1, len(cols)): the first j of the inner loop.
InnerStart(i) == i + 1

\* The two loops over cols, indices i and j counted from 0 as in the code.
RECURSIVE TTestLoop(_, _, _, _)
TTestLoop(cols, i, j, acc) ==
    IF i >= Len(cols) THEN acc
    ELSE IF j >= Len(cols) THEN TTestLoop(cols, i + 1, InnerStart(i + 1), acc)
    ELSE TTestLoop(cols, i, j + 1,
            Append(acc, [var1   |-> cols[i + 1],
                         var2   |-> cols[j + 1],
                         t_stat |-> <<"t", cols[i + 1], cols[j + 1]>>,
                         p_val  |-> <<"p", cols[i + 1], cols[j + 1]>>]))

TTestResults(numeric) == TTestLoop(numeric.columns, 0, InnerStart(0), <<>>)

\* if ttest_results:
TTestCalls(numeric) ==
    LET ttest_results == TTestResults(numeric)
    IN IF ttest_results # <<>>
       THEN <<Call(TitleTTest, "This table presents independent sample t-test results.",
                   ttest_results)>>
       ELSE <<>>

RawCalls(df) ==
    <<Call(TitleRaw, "This table presents the raw responses of all respondents.",
           RawData(df))>>

DiscussionCallsCorrFirst(df) ==
    LET numeric == SelectNumeric(df)
        categorical == SelectCategorical(df)
    IN RawCalls(df) \o StatsCalls(numeric) \o CorrCalls(numeric)
           \o FreqCalls(categorical) \o TTestCalls(numeric)

\* The calls of ai_generate_discussion that analyze makes on df, in the order
\* of the handler's text; each one is the argument of a
\* table_discussions.append.
DiscussionCalls(df) ==
    LET numeric == SelectNumeric(df)
        categorical == SelectCategorical(df)
    IN RawCalls(df) \o StatsCalls(numeric) \o FreqCalls(categorical)
           \o CorrCalls(numeric) \o TTestCalls(numeric)

\* table_discussions: the i-th entry is (title, text) of the i-th call, whose
\* outcome is script[i].
TableDiscussions(df, script) ==
    LET c == DiscussionCalls(df)
    IN [i \in 1..Len(c) |->
          <<c[i].title,
            ai_generate_discussion(c[i].title, c[i].description, c[i].table_data,
                                   script[i])>>]

\* The dict assigned to request.session["report_data"].
ReportData(form, df, script) ==
    LET numeric == SelectNumeric(df)
        categorical == SelectCategorical(df)
    IN [title             |-> form.title,
        objective         |-> form.objective,
        problem           |-> form.problem,
        total_n           |-> df.nrows,
        raw_cols          |-> df.columns,
        raw_data          |-> RawData(df),
        stats_table       |-> StatsTable(numeric),
        freq_tables       |-> FreqTables(categorical),
        corr_cols         |-> CorrCols(numeric),
        corr_rows         |-> CorrRows(numeric),
        ttest_results     |-> TTestResults(numeric),
        table_discussions |-> TableDiscussions(df, script)]

----------------------------------------------------------------------------
(* Responses *)

Response(kind, template, content_type, disposition, content) ==
    [kind |-> kind, template |-> template, content_type |-> content_type,
     disposition |-> disposition, content |-> content]

\* render(request, template, context)
Render(template, context) == Response("render", template, "text/html", "", context)

\* HttpResponse(text): a body and no Content-Disposition.
HttpResponse(text) == Response("HttpResponse", "", "text/html", "", text)

\* An exception leaves the handler.
Raised(what) == Response("exception", "", "", "", what)

\* The handler falls off its end: it returns None.
ReturnedNone == Response("None", "", "", "", "")

NoResponse == Response("none yet", "", "", "", "")

DocxMime == "application/vnd.openxmlformats-officedocument.wordprocessingml.document"
DocxDisposition == "attachment; filename=Research_Report.docx"

----------------------------------------------------------------------------
(* export_word: the document *)

Heading(text, level) == [block |-> "heading", level |-> level, text |-> text]
Paragraph(text) == [block |-> "paragraph", level |-> 0, text |-> text]

DiscussionBlocksReversed(td) ==
    [i \in 1..(2 * Len(td)) |->
        IF i % 2 = 1
        THEN Heading(td[Len(td) + 1 - (i + 1) \div 2][1], 2)
        ELSE Paragraph(td[Len(td) + 1 - i \div 2][2])]

\* for title, discussion in data["table_discussions"]:
\*     doc.add_heading(title, level=2); doc.add_paragraph(discussion)
DiscussionBlocks(td) ==
    [i \in 1..(2 * Len(td)) |->
        IF i % 2 = 1
        THEN Heading(td[(i + 1) \div 2][1], 2)
        ELSE Paragraph(td[i \div 2][2])]

BuildDocument(data) ==
    << Heading(<<data.title>>, 1),
       Paragraph(<<"Objective: ", data.objective>>),
       Paragraph(<<"Problem: ", data.problem>>),
       Paragraph(<<"Respondents: ", data.total_n>>),
       Heading(<<"Discussion of Results">>, 1) >>
    \o DiscussionBlocks(data.table_discussions)

\* request.session.get("report_data") is falsy: the key is absent (a stored
\* report is a dict of twelve keys, which is truthy).
NoData(sess) == Len(sess) = 0

ExportResponseUnguarded(sess) ==
    IF NoData(sess)
    THEN Raised("TypeError")
    ELSE Response("HttpResponse", "", DocxMime, DocxDisposition, BuildDocument(sess[1]))

ExportResponse(sess) ==
    IF NoData(sess)
    THEN HttpResponse("No data available.")
    ELSE Response("HttpResponse", "", DocxMime, DocxDisposition, BuildDocument(sess[1]))

SessionAfterExportPopped(sess) == <<>>

\* export_word only reads the session.
SessionAfterExport(sess) == sess

----------------------------------------------------------------------------
(* analyze: the handler *)

SaveSessionMerging(sess, report) ==
    IF Len(sess) = 0 THEN <<report>>
    ELSE <<[report EXCEPT !.table_discussions = sess[1].table_discussions \o @]>>

\* request.session["report_data"] = {...}
SaveSession(sess, report) == <<report>>

\* What a POST to analyze does, by the handler's early returns.
AnalyzeOutcome(u) ==
    IF ~is_valid(u) THEN "invalid form"
    ELSE IF ReadExcelRaises(u.file) THEN "read_excel raises"
    ELSE "report"

\* The number of text-generation calls a POST of u leads to.
NumCalls(u) ==
    IF AnalyzeOutcome(u) = "report" THEN Len(DiscussionCalls(ReadExcel(u.file))) ELSE 0

\* The service's behaviour during a request: the calls in failing raise, the
\* others return their completion.
Script(n, failing) ==
    [i \in 1..n |-> IF i \in failing THEN Raises ELSE Returns(Completion(i))]

\* Every subset of the calls may fail.
Scripts(u) == { Script(NumCalls(u), failing) : failing \in SUBSET (1..NumCalls(u)) }

\* The service is up for the whole request, or down for all of it.
UniformScripts(u) == { Script(NumCalls(u), {}), Script(NumCalls(u), 1..NumCalls(u)) }

\* analyze(request), request.method = "POST", with upload u, while the
\* service behaves as script.
AnalyzePost(u, script) ==
    /\ view' = "analyze"
    /\ method' = "POST"
    /\ held' = (Len(session) = 1)
    /\ upload' = u
    /\ service' = script
    /\ CASE AnalyzeOutcome(u) = "invalid form" ->
              /\ response' = Render("index.html", <<"form with errors">>)
              /\ calls' = <<>>
              /\ UNCHANGED session
         [] AnalyzeOutcome(u) = "read_excel raises" ->
              /\ response' = Raised("ValueError")
              /\ calls' = <<>>
              /\ UNCHANGED session
         [] OTHER ->
              /\ calls' = DiscussionCalls(ReadExcel(u.file))
              /\ session' = SaveSession(session, ReportData(u.form, ReadExcel(u.file), script))
              /\ response' = Render("results.html", session'[1])

\* analyze(request) with any other method: no branch returns.
AnalyzeGet ==
    /\ view' = "analyze"
    /\ method' = "GET"
    /\ held' = (Len(session) = 1)
    /\ upload' = NoUpload
    /\ service' = <<>>
    /\ response' = ReturnedNone
    /\ calls' = <<>>
    /\ UNCHANGED session

\* index(request)
Index ==
    /\ view' = "index"
    /\ method' = "GET"
    /\ held' = (Len(session) = 1)
    /\ upload' = NoUpload
    /\ service' = <<>>
    /\ response' = Render("index.html", <<"form">>)
    /\ calls' = <<>>
    /\ UNCHANGED session

\* export_word(request)
ExportWord ==
    /\ view' = "export_word"
    /\ method' = "GET"
    /\ held' = (Len(session) = 1)
    /\ upload' = NoUpload
    /\ service' = <<>>
    /\ response' = ExportResponse(session)
    /\ session' = SessionAfterExport(session)
    /\ calls' = <<>>

----------------------------------------------------------------------------
(* Spec: one session, any sequence of requests *)

ValidForms == {Form1, Form2}

\* What a client may post: a complete form with a spreadsheet, a complete
\* form with a file that is none, or an incomplete form.
SessionUploads ==
    { [form |-> f, file |-> x] :
        f \in ValidForms, x \in SheetFiles(SessMaxCols) \cup {InvalidFile, EmptyFile, MissingFile} }
    \cup { [form |-> FormNoTitle, file |-> x] : x \in SheetFiles(0) }

Init ==
    /\ session = <<>>
    /\ view = "none"
    /\ method = "GET"
    /\ upload = NoUpload
    /\ service = <<>>
    /\ response = NoResponse
    /\ calls = <<>>
    /\ held = FALSE

AnalyzeAny == \E u \in SessionUploads : \E script \in UniformScripts(u) : AnalyzePost(u, script)

Next == Index \/ AnalyzeAny \/ AnalyzeGet \/ ExportWord

Spec == Init /\ [][Next]_vars

----------------------------------------------------------------------------
(* SpecAnalysis: one upload, every sheet and every behaviour of the service *)

AnalysisUploads == { [form |-> Form1, file |-> x] : x \in SheetFiles(MaxCols) }

InitAnalysis ==
    /\ session = <<>>
    /\ view = "none"
    /\ method = "GET"
    /\ upload \in AnalysisUploads
    /\ service \in Scripts(upload)
    /\ response = NoResponse
    /\ calls = <<>>
    /\ held = FALSE

AnalyzeUpload == AnalyzePost(upload, service)

NextAnalysis == AnalyzeUpload \/ ExportWord

SpecAnalysis == InitAnalysis /\ [][NextAnalysis]_vars

----------------------------------------------------------------------------
(* Properties *)

\* The latest request was a POST to analyze that rendered the results page.
AnalyzeSucceeded ==
    view = "analyze" /\ method = "POST"
        /\ response.kind = "render" /\ response.template = "results.html"

\* The latest request was a POST to analyze of a complete form with a
\* readable spreadsheet.
AnalyzedSheet ==
    view = "analyze" /\ method = "POST" /\ is_valid(upload) /\ upload.file.state = "ok"

\* The numeric and the categorical columns of the uploaded sheet, by the
\* dtype of each column.
NumericIdx(file) == {i \in 1..Len(file.header) : Dtype(file, i) = "float64"}
CategoricalIdx(file) == {i \in 1..Len(file.header) : Dtype(file, i) # "float64"}

\* The elements of a finite set of numbers in increasing order.
RECURSIVE Sorted(_)
Sorted(S) ==
    IF S = {} THEN <<>>
    ELSE LET m == CHOOSE x \in S : \A y \in S : x <= y
         IN <<m>> \o Sorted(S \ {m})

NamesAt(file, idx) == [k \in 1..Cardinality(idx) |-> Mangle(file.header)[Sorted(idx)[k]]]

Titles(td) == [i \in 1..Len(td) |-> td[i][1]]

\* The place of a kind of table in the claimed order.
Rank(title) ==
    IF Len(title) = 2 THEN 3
    ELSE IF title = TitleRaw THEN 1
    ELSE IF title = TitleStats THEN 2
    ELSE IF title = TitleCorr THEN 4
    ELSE 5

\* C1: once analyze has succeeded the session holds a report, and an
\* export_word request leaves the session exactly as it was and, when a
\* report is stored, answers with the document built from that report.
C1_ExportKeepsReport ==
    [][ /\ (AnalyzeSucceeded' => Len(session') = 1)
        /\ (view' = "export_word" =>
              /\ session' = session
              /\ (Len(session) = 1 =>
                    /\ response'.kind = "HttpResponse"
                    /\ response'.content_type = DocxMime
                    /\ response'.content = BuildDocument(session[1]))) ]_vars

\* An export answered with the document, in a session that already held the
\* report when the export came and still holds it.
C1_Witness ==
    /\ view = "export_word" /\ held /\ Len(session) = 1
    /\ response.content_type = DocxMime
    /\ Len(session[1].table_discussions) >= 2

\* C2: export_word in a session without a report answers with the text
\* "No data available.", not with an attachment and not by raising, and the
\* session still holds no report.
C2_ExportWithoutReport ==
    [][ (view' = "export_word" /\ Len(session) = 0) =>
          /\ response'.kind = "HttpResponse"
          /\ response'.disposition = ""
          /\ response'.content_type # DocxMime
          /\ response'.content = "No data available."
          /\ Len(session') = 0 ]_vars

C2_Witness ==
    /\ view = "export_word" /\ ~held /\ Len(session) = 0
    /\ response.kind = "HttpResponse"

\* C3 as claimed: each failing call's discussion is the fallback, each other
\* discussion equals the text the service returned, analyze completes and
\* stores the report, and the entries are those of a run without failures.
C3_Original ==
    AnalyzedSheet =>
        /\ AnalyzeSucceeded
        /\ Len(session) = 1
        /\ Len(session[1].table_discussions) = Len(service)
        /\ \A i \in 1..Len(service) :
              session[1].table_discussions[i][2] =
                  IF service[i].ok THEN service[i].text ELSE Fallback
        /\ Titles(session[1].table_discussions) =
              Titles(TableDiscussions(ReadExcel(upload.file),
                        Script(Len(service), {})))

\* C3, amended: as claimed, but a call that returns gives the returned text
\* with its leading and trailing whitespace removed.
C3_FallbackPerTable ==
    AnalyzedSheet =>
        /\ AnalyzeSucceeded
        /\ Len(session) = 1
        /\ Len(session[1].table_discussions) = Len(service)
        /\ \A i \in 1..Len(service) :
              session[1].table_discussions[i][2] =
                  IF service[i].ok THEN Strip(service[i].text) ELSE Fallback
        /\ Titles(session[1].table_discussions) =
              Titles(TableDiscussions(ReadExcel(upload.file),
                        Script(Len(service), {})))

\* A stored report of which one call failed, one returned a text with
\* whitespace around it and one a text without.
C3_Witness ==
    /\ AnalyzedSheet /\ AnalyzeSucceeded
    /\ \E i, j, k \in 1..Len(service) :
          /\ ~service[i].ok
          /\ service[j].ok /\ Strip(service[j].text) # service[j].text
          /\ service[k].ok /\ Strip(service[k].text) = service[k].text
          /\ session[1].table_discussions[i][2] = Fallback

\* C4: table_discussions is raw data, then the statistical summary if any,
\* then one entry per categorical column in column order, then the
\* correlation entry if any, then the t-test entry if any; and the calls of
\* the service were issued one after another in that order.
C4_DiscussionOrder ==
    AnalyzeSucceeded =>
        LET T == Titles(session[1].table_discussions)
            F == SelectSeq(T, LAMBDA t : Rank(t) = 3)
            cat == NamesAt(upload.file, CategoricalIdx(upload.file))
        IN /\ Len(T) >= 1 /\ T[1] = TitleRaw
           /\ \A i \in 1..Len(T) : \A j \in (i + 1)..Len(T) :
                 /\ Rank(T[i]) <= Rank(T[j])
                 /\ Rank(T[i]) = Rank(T[j]) => Rank(T[i]) = 3
           /\ F = [i \in 1..Len(cat) |-> TitleFreq(cat[i])]
           /\ [i \in 1..Len(calls) |-> calls[i].title] = T

\* A report with all five kinds of table.
C4_Witness ==
    /\ AnalyzeSucceeded
    /\ {Rank(session[1].table_discussions[i][1]) :
            i \in 1..Len(session[1].table_discussions)} = 1..5
    /\ Cardinality(CategoricalIdx(upload.file)) >= 1

\* C5: with k numeric and c categorical columns the report has
\* 1 + (1 if k >= 1) + c + (1 if k >= 2) + (1 if k >= 2) discussions.
C5_DiscussionCount ==
    AnalyzeSucceeded =>
        LET k == Cardinality(NumericIdx(upload.file))
            c == Cardinality(CategoricalIdx(upload.file))
        IN Len(session[1].table_discussions) =
              1 + (IF k >= 1 THEN 1 ELSE 0) + c
                + (IF k >= 2 THEN 1 ELSE 0) + (IF k >= 2 THEN 1 ELSE 0)

\* A report of a sheet with two numeric columns and a categorical one.
C5_Witness ==
    /\ AnalyzeSucceeded
    /\ Cardinality(NumericIdx(upload.file)) >= 2
    /\ Cardinality(CategoricalIdx(upload.file)) >= 1
    /\ Len(session[1].table_discussions) = 5

\* C6: for k numeric columns ttest_results has exactly k(k-1)/2 entries, one
\* for each pair (cols[i], cols[j]) with i < j: no self pair, no unordered
\* pair twice, and none when k < 2.
C6_PairwiseTests ==
    AnalyzeSucceeded =>
        LET tt == session[1].ttest_results
            cols == NamesAt(upload.file, NumericIdx(upload.file))
            k == Len(cols)
        IN /\ 2 * Len(tt) = k * (k - 1)
           /\ (k < 2 => tt = <<>>)
           /\ \A a \in 1..Len(tt) : tt[a].var1 # tt[a].var2
           /\ \A a \in 1..Len(tt) : \A b \in (a + 1)..Len(tt) :
                 {tt[a].var1, tt[a].var2} # {tt[b].var1, tt[b].var2}
           /\ \A a \in 1..Len(tt) :
                 \E i \in 1..k : \E j \in (i + 1)..k :
                     tt[a].var1 = cols[i] /\ tt[a].var2 = cols[j]
           /\ \A i \in 1..k : \A j \in (i + 1)..k :
                 \E a \in 1..Len(tt) : tt[a].var1 = cols[i] /\ tt[a].var2 = cols[j]

\* A report of a sheet with three numeric columns, two of one header name.
C6_Witness ==
    /\ AnalyzeSucceeded
    /\ Len(session[1].ttest_results) = 3
    /\ \E i, j \in NumericIdx(upload.file) :
          i # j /\ upload.file.header[i] = upload.file.header[j]

\* C7: after a successful analyze the stored report is the report of the
\* new submission: every field comes from it, and nothing of the report
\* the session held before is kept.
C7_ReportReplaced ==
    (AnalyzeSucceeded /\ held) =>
        /\ Len(session) = 1
        /\ DOMAIN session[1] =
              {"title", "objective", "problem", "total_n", "raw_cols", "raw_data",
               "stats_table", "freq_tables", "corr_cols", "corr_rows",
               "ttest_results", "table_discussions"}
        /\ session[1].title = upload.form.title
        /\ session[1].objective = upload.form.objective
        /\ session[1].problem = upload.form.problem
        /\ session[1].total_n = upload.file.nrows
        /\ session[1].raw_cols = Mangle(upload.file.header)
        /\ Len(session[1].raw_data) = upload.file.nrows
        /\ Len(session[1].table_discussions) = Len(service)
        /\ session[1] = ReportData(upload.form, ReadExcel(upload.file), service)

\* A second report stored over a first.
C7_Witness ==
    /\ AnalyzeSucceeded /\ held
    /\ session[1].title = "T2"
    /\ Len(session[1].table_discussions) >= 2

\* What the claim calls an InputError: a required form field or the file is
\* missing, the file is empty, or the file is no spreadsheet.
InputError(u) ==
    \/ u.form.title = "" \/ u.form.objective = "" \/ u.form.problem = ""
    \/ u.file.state \in {"missing", "empty", "invalid"}

\* C8: a POST to analyze with an InputError re-renders the upload form,
\* leaves the session's report as it was, and lets no error escape.
C8_InputErrorRerendersForm ==
    [][ (view' = "analyze" /\ method' = "POST" /\ InputError(upload')) =>
          /\ response'.kind = "render"
          /\ response'.template = "index.html"
          /\ session' = session ]_vars

\* C9 as claimed: every column with a row in stats_table is var1 or var2 of
\* some entry of ttest_results.
C9_Original ==
    AnalyzeSucceeded =>
        \A r \in 1..Len(session[1].stats_table) :
            \E a \in 1..Len(session[1].ttest_results) :
                session[1].stats_table[r][1] \in
                    {session[1].ttest_results[a].var1, session[1].ttest_results[a].var2}

\* C9, amended: when stats_table has at least two rows, every column with a
\* row in it is var1 or var2 of some entry of ttest_results.
C9_StatsColumnsTested ==
    (AnalyzeSucceeded /\ Len(session[1].stats_table) >= 2) =>
        \A r \in 1..Len(session[1].stats_table) :
            \E a \in 1..Len(session[1].ttest_results) :
                session[1].stats_table[r][1] \in
                    {session[1].ttest_results[a].var1, session[1].ttest_results[a].var2}

C9_Witness ==
    /\ AnalyzeSucceeded
    /\ Len(session[1].stats_table) = 3
    /\ Len(session[1].ttest_results) = 3

\* The level-2 headings of a document, by position.
Level2(doc) ==
    SelectSeq([i \in 1..Len(doc) |-> i],
              LAMBDA i : doc[i].block = "heading" /\ doc[i].level = 2)

\* C10: export_word in a session with a report answers with an attachment
\* named Research_Report.docx of the word-processing MIME type, whose
\* level-2 headings are the titles of the stored table_discussions in the
\* stored order, each followed by a paragraph with that entry's discussion.
C10_ExportDocument ==
    (view = "export_word" /\ held) =>
        /\ Len(session) = 1
        /\ response.kind = "HttpResponse"
        /\ response.content_type = DocxMime
        /\ response.disposition = DocxDisposition
        /\ LET doc == response.content
               td == session[1].table_discussions
               h == Level2(doc)
           IN /\ Len(h) = Len(td)
              /\ \A i \in 1..Len(h) :
                    /\ doc[h[i]].text = td[i][1]
                    /\ h[i] < Len(doc)
                    /\ doc[h[i] + 1].block = "paragraph"
                    /\ doc[h[i] + 1].text = td[i][2]

\* A document of five discussions, two of them different.
C10_Witness ==
    /\ view = "export_word" /\ held
    /\ response.content_type = DocxMime
    /\ Len(session[1].table_discussions) = 5
    /\ session[1].table_discussions[1][2] # session[1].table_discussions[2][2]

====
